---- MODULE Spec2Model ----
(***************************************************************************)
(* Financial-literacy chatbot (src/chatbot.py): the data load at import    *)
(* and the per-message dispatcher get_chatbot_response.                    *)
(*                                                                         *)
(* A Python str is a sequence of Unicode code points, and is modelled as   *)
(* exactly that: a sequence of naturals.  ASCII literals of the source are *)
(* written Str("...") and Devanagari literals as their code points.        *)
(* Retrieval scores are kept in tenths (0.5 -> 5, 0.4 -> 4, 1.5 -> 15):    *)
(* every score of the source is k*0.5 optionally followed by one +0.4,     *)
(* so comparisons of the floats and of the tenths agree.                   *)
(***************************************************************************)
EXTENDS Integers, Sequences, FiniteSets, TLC

VARIABLES
    source,          \* what financial_data.json holds on disk (never written)
    pc,              \* position of the process
    docs,            \* SEARCHABLE_DOCUMENTS
    user_question,   \* argument of get_chatbot_response
    query,           \* user_question.lower().strip()
    lang,            \* explicit_lang / detect_language_from_query result
    count,           \* step 5: resolved tip count
    scan_i,          \* search_custom_data: index of the next document of the loop
    highest_score,   \* search_custom_data: running maximum (tenths)
    top_matches,     \* search_custom_data: tie set (positions of docs)
    primary_match,   \* step 6/7 result, None when there is none
    backend,         \* history: what the backend did when step 7 called it
    gemini_text,     \* step 7: what call_gemini_api_fallback returned, else None
    selected_tips,   \* search_multiple_tips: the sample (positions of docs)
    core,            \* history: the reply without its enrichment sections
    reply,           \* the returned text, None while the request runs
    calls,           \* history: calls made while serving the current request
    prev             \* history: utterance and core content of the previous request

vars == <<source, pc, docs, user_question, query, lang, count, scan_i,
          highest_score, top_matches, primary_match, backend, gemini_text,
          selected_tips, core, reply, calls, prev>>

\* Python's None, where a language name, a str or a dict is expected (TLC
\* compares only values of one kind)
None == "None"
NoText == <<-1>>
NoDocument == [doc_type |-> "None"]
NoRequest ==
    [utterance |-> NoText, core |-> NoText, gemini_text |-> NoText, reply |-> NoText]

(***************************************************************************)
(* Strings                                                                 *)
(***************************************************************************)
\* Printable ASCII 32..95 and 97..126 (the grave accent, 96, cannot be
\* written in a TLA+ string and occurs in no literal of the source).
AsciiLow == " !\"#$%&'()" \o "*+,-./0123456789:;<=>?@ABCDEFGHIJKLMNOPQRSTUVWXYZ[\\]^_"
AsciiHigh == "abcdefghijklmnopqrstuvwxyz{|}~"

Ord(c) ==
    IF \E i \in 1..Len(AsciiLow) : SubSeq(AsciiLow, i, i) = c
    THEN 31 + CHOOSE i \in 1..Len(AsciiLow) : SubSeq(AsciiLow, i, i) = c
    ELSE 96 + CHOOSE i \in 1..Len(AsciiHigh) : SubSeq(AsciiHigh, i, i) = c

Str(s) == [i \in 1..Len(s) |-> Ord(SubSeq(s, i, i))]

\* str.isspace for one character
IsSpace(c) ==
    c \in (9..13) \cup (28..32) \cup {133, 160, 5760} \cup (8192..8202)
          \cup {8232, 8233, 8239, 8287, 12288}

\* str.lower / str.upper on the model's alphabet (ASCII and the Devanagari
\* block, which has no case)
LowerChar(c) == IF c \in 65..90 THEN c + 32 ELSE c
UpperChar(c) == IF c \in 97..122 THEN c - 32 ELSE c
IsCased(c) == c \in (65..90) \cup (97..122)

Lower(s) == [i \in 1..Len(s) |-> LowerChar(s[i])]

\* str.title: a cased character is upper-cased unless it follows a cased one
Title(s) ==
    [i \in 1..Len(s) |->
        IF i > 1 /\ IsCased(s[i-1]) THEN LowerChar(s[i]) ELSE UpperChar(s[i])]

\* s.strip(chars): chars is the set of characters removed at both ends
StripChars(s, chars) ==
    LET keep == {i \in 1..Len(s) : s[i] \notin chars}
    IN  IF keep = {} THEN <<>>
        ELSE SubSeq(s, CHOOSE i \in keep : \A j \in keep : i <= j,
                       CHOOSE i \in keep : \A j \in keep : i >= j)

\* s.strip()
Strip(s) ==
    LET keep == {i \in 1..Len(s) : ~IsSpace(s[i])}
    IN  IF keep = {} THEN <<>>
        ELSE SubSeq(s, CHOOSE i \in keep : \A j \in keep : i <= j,
                       CHOOSE i \in keep : \A j \in keep : i >= j)

\* s.split(): the maximal runs of non-whitespace characters, in order
RECURSIVE SplitFrom(_, _)
SplitFrom(s, i) ==
    IF i > Len(s) THEN <<>>
    ELSE IF IsSpace(s[i]) THEN SplitFrom(s, i + 1)
    ELSE LET stops == {j \in i..Len(s) : IsSpace(s[j])}
             e == IF stops = {} THEN Len(s) + 1
                  ELSE CHOOSE j \in stops : \A k \in stops : j <= k
         IN  <<SubSeq(s, i, e - 1)>> \o SplitFrom(s, e)

Split(s) == SplitFrom(s, 1)

\* p in q
Contains(q, p) == \E i \in 0..(Len(q) - Len(p)) : SubSeq(q, i + 1, i + Len(p)) = p

\* q.startswith(p)
StartsWith(q, p) == Len(p) <= Len(q) /\ SubSeq(q, 1, Len(p)) = p

\* x in list
InList(x, list) == \E i \in 1..Len(list) : list[i] = x

\* str(n) for n >= 0
RECURSIVE IntToStr(_)
IntToStr(n) ==
    IF n < 10 THEN <<48 + n>> ELSE IntToStr(n \div 10) \o <<48 + (n % 10)>>

\* str.isdigit on the model's alphabet: ASCII digits and Devanagari digits
IsDigitChar(c) == c \in (48..57) \cup (2406..2415)
DigitValue(c) == IF c \in 48..57 THEN c - 48 ELSE c - 2406
IsDigit(w) == Len(w) > 0 /\ \A i \in 1..Len(w) : IsDigitChar(w[i])

\* int(w) for a w with IsDigit(w)
RECURSIVE ToInt(_)
ToInt(w) ==
    IF Len(w) = 0 THEN 0
    ELSE 10 * ToInt(SubSeq(w, 1, Len(w) - 1)) + DigitValue(w[Len(w)])

\* "sep".join(parts)
RECURSIVE Join(_, _)
Join(sep, parts) ==
    IF Len(parts) = 0 THEN <<>>
    ELSE IF Len(parts) = 1 THEN parts[1]
    ELSE parts[1] \o sep \o Join(sep, Tail(parts))

NL == <<10>>

\* The pieces of the f-strings of line 171-172, 383-402, and the doc_type
\* values as text
fmt_dot_bold == Str(". **")
fmt_open == Str(" (")
fmt_close_bold == Str("):**")
fmt_indent == Str("   ")
fmt_bold == Str("**")
fmt_bold_colon == Str("**:")
text_definition == Str("Definition")
text_saving_tip == Str("Saving Tip")
text_scam_alert == Str("Scam Alert")

(***************************************************************************)
(* Literals of src/chatbot.py                                              *)
(***************************************************************************)
\* line 43-46: "namaste", "mujhe", "hindi", "bachat", "nivesh", "ghotala", "kya", "kaise", "aap", "mera", "kon", "nahi", "hai", "batao"
hindi_translit_keywords ==
    <<Str("namaste"), Str("mujhe"), Str("hindi"), Str("bachat"),
    Str("nivesh"), Str("ghotala"), Str("kya"), Str("kaise"), Str("aap"),
    Str("mera"), Str("kon"), Str("nahi"), Str("hai"), Str("batao")>>

\* line 59-66: "account", "asset", "bank", "bond", "business", "capital", "cash", "credit", "debt", "economy", "finance", "fund", "insurance", "invest", "loan", "market", "money", "mortgage", "pay", "rate", "risk", "stock", "tax", "wealth", "apr", "kyc", "cdo", "reit", "roth", "ira", "401k", "liability", "income", "expense", "investing", "crypto", "scam", "scams", "tip", "tips", "define", "what is", "mlm", "blockchain", "nifty", "sip", "ipo", "eps", "pe", "gdp", "cpi", "sensex", "nifty 50"
financial_keywords ==
    <<Str("account"), Str("asset"), Str("bank"), Str("bond"), Str("business"),
    Str("capital"), Str("cash"), Str("credit"), Str("debt"), Str("economy"),
    Str("finance"), Str("fund"), Str("insurance"), Str("invest"), Str("loan"),
    Str("market"), Str("money"), Str("mortgage"), Str("pay"), Str("rate"),
    Str("risk"), Str("stock"), Str("tax"), Str("wealth"), Str("apr"),
    Str("kyc"), Str("cdo"), Str("reit"), Str("roth"), Str("ira"), Str("401k"),
    Str("liability"), Str("income"), Str("expense"), Str("investing"),
    Str("crypto"), Str("scam"), Str("scams"), Str("tip"), Str("tips"),
    Str("define"), Str("what is"), Str("mlm"), Str("blockchain"),
    Str("nifty"), Str("sip"), Str("ipo"), Str("eps"), Str("pe"), Str("gdp"),
    Str("cpi"), Str("sensex"), Str("nifty 50")>>

\* line 68, the Hindi substrings: "बचत", "निवेश", "ऋण", "घोटाला", "वित्तीय", "टिप"
financial_substrings_hindi ==
    <<<<2348, 2330, 2340>>, <<2344, 2367, 2357, 2375, 2358>>, <<2315, 2339>>,
    <<2328, 2379, 2335, 2366, 2354, 2366>>, <<2357, 2367, 2340, 2381, 2340,
    2368, 2351>>, <<2335, 2367, 2346>>>>

\* line 75, after the two query-dependent preambles: "it stands for", "stands for", "the definition is", "refers to", "is the"
preambles_en_fixed ==
    <<Str("it stands for"), Str("stands for"), Str("the definition is"),
    Str("refers to"), Str("is the")>>

\* line 75: " stands for"
preamble_stands_for == Str(" stands for")

\* line 75: " is"
preamble_is == Str(" is")

\* line 76: "इसका मतलब है", "परिभाषा यह है", "को संदर्भित करता है", "है"
preambles_hi ==
    <<<<2311, 2360, 2325, 2366, 32, 2350, 2340, 2354, 2348, 32, 2361, 2376>>,
    <<2346, 2352, 2367, 2349, 2366, 2359, 2366, 32, 2351, 2361, 32, 2361,
    2376>>, <<2325, 2379, 32, 2360, 2306, 2342, 2352, 2381, 2349, 2367, 2340,
    32, 2325, 2352, 2340, 2366, 32, 2361, 2376>>, <<2361, 2376>>>>

\* line 109: "Translation not available."
translation_not_available == Str("Translation not available.")

\* line 119: "Tip: "
tip_prefix == Str("Tip: ")

\* line 120: "सुझाव: "
tip_prefix_hindi == <<2360, 2369, 2333, 2366, 2357, 58, 32>>

\* line 120, 127: "अनुवाद उपलब्ध नहीं है।"
no_translation_hindi ==
    <<2309, 2344, 2369, 2357, 2366, 2342, 32, 2313, 2346, 2354, 2348, 2381,
    2343, 32, 2344, 2361, 2368, 2306, 32, 2361, 2376, 2404>>

\* line 126: "Warning: "
warning_prefix == Str("Warning: ")

\* line 126: " | Prevention: "
prevention_infix == Str(" | Prevention: ")

\* line 127: "चेतावनी: "
warning_prefix_hindi == <<2330, 2375, 2340, 2366, 2357, 2344, 2368, 58, 32>>

\* line 127: " | रोकथाम: "
prevention_infix_hindi ==
    <<32, 124, 32, 2352, 2379, 2325, 2341, 2366, 2350, 58, 32>>

\* line 164: "यहाँ "
tips_header_hindi_1 == <<2351, 2361, 2366, 2305, 32>>

\* line 164: " लोकप्रिय बचत सुझाव दिए गए हैं:\n\n"
tips_header_hindi_2 ==
    <<32, 2354, 2379, 2325, 2346, 2381, 2352, 2367, 2351, 32, 2348, 2330,
    2340, 32, 2360, 2369, 2333, 2366, 2357, 32, 2342, 2367, 2319, 32, 2327,
    2319, 32, 2361, 2376, 2306, 58, 10, 10>>

\* line 167: "Here are "
tips_header_english_1 == Str("Here are ")

\* line 167: " popular Saving Tips:\n\n"
tips_header_english_2 ==
    <<32, 112, 111, 112, 117, 108, 97, 114, 32, 83, 97, 118, 105, 110, 103,
    32, 84, 105, 112, 115, 58, 10, 10>>

\* line 244: "A Gemini API error occurred: "
api_error_prefix == Str("A Gemini API error occurred: ")

\* line 246: "An unknown error occurred: "
unknown_error_prefix == Str("An unknown error occurred: ")

\* line 260-267: "Hello! I'm your **Financial Literacy Chatbot**.\nPlease choose your preferred language to proceed:\n1. English (अंग्रेज़ी)\n2. Hindi (हिंदी)\n-------------------------------------\nOr, start typing your financial question directly."
language_menu ==
    <<72, 101, 108, 108, 111, 33, 32, 73, 39, 109, 32, 121, 111, 117, 114, 32,
    42, 42, 70, 105, 110, 97, 110, 99, 105, 97, 108, 32, 76, 105, 116, 101,
    114, 97, 99, 121, 32, 67, 104, 97, 116, 98, 111, 116, 42, 42, 46, 10, 80,
    108, 101, 97, 115, 101, 32, 99, 104, 111, 111, 115, 101, 32, 121, 111,
    117, 114, 32, 112, 114, 101, 102, 101, 114, 114, 101, 100, 32, 108, 97,
    110, 103, 117, 97, 103, 101, 32, 116, 111, 32, 112, 114, 111, 99, 101,
    101, 100, 58, 10, 49, 46, 32, 69, 110, 103, 108, 105, 115, 104, 32, 40,
    2309, 2306, 2327, 2381, 2352, 2375, 2332, 2364, 2368, 41, 10, 50, 46, 32,
    72, 105, 110, 100, 105, 32, 40, 2361, 2367, 2306, 2342, 2368, 41, 10, 45,
    45, 45, 45, 45, 45, 45, 45, 45, 45, 45, 45, 45, 45, 45, 45, 45, 45, 45,
    45, 45, 45, 45, 45, 45, 45, 45, 45, 45, 45, 45, 45, 45, 45, 45, 45, 45,
    10, 79, 114, 44, 32, 115, 116, 97, 114, 116, 32, 116, 121, 112, 105, 110,
    103, 32, 121, 111, 117, 114, 32, 102, 105, 110, 97, 110, 99, 105, 97, 108,
    32, 113, 117, 101, 115, 116, 105, 111, 110, 32, 100, 105, 114, 101, 99,
    116, 108, 121, 46>>

\* line 280: "नमस्ते! आपने हिंदी भाषा चुनी है। मैं आपके वित्तीय शब्दों, बचत के सुझाव और घोटालों की चेतावनी में मदद कर सकता हूँ। आप क्या जानना चाहेंगे?"
hello_message_hindi ==
    <<2344, 2350, 2360, 2381, 2340, 2375, 33, 32, 2310, 2346, 2344, 2375, 32,
    2361, 2367, 2306, 2342, 2368, 32, 2349, 2366, 2359, 2366, 32, 2330, 2369,
    2344, 2368, 32, 2361, 2376, 2404, 32, 2350, 2376, 2306, 32, 2310, 2346,
    2325, 2375, 32, 2357, 2367, 2340, 2381, 2340, 2368, 2351, 32, 2358, 2348,
    2381, 2342, 2379, 2306, 44, 32, 2348, 2330, 2340, 32, 2325, 2375, 32,
    2360, 2369, 2333, 2366, 2357, 32, 2324, 2352, 32, 2328, 2379, 2335, 2366,
    2354, 2379, 2306, 32, 2325, 2368, 32, 2330, 2375, 2340, 2366, 2357, 2344,
    2368, 32, 2350, 2375, 2306, 32, 2350, 2342, 2342, 32, 2325, 2352, 32,
    2360, 2325, 2340, 2366, 32, 2361, 2370, 2305, 2404, 32, 2310, 2346, 32,
    2325, 2381, 2351, 2366, 32, 2332, 2366, 2344, 2344, 2366, 32, 2330, 2366,
    2361, 2375, 2306, 2327, 2375, 63>>

\* line 282: "Hello! You have chosen English. I can help you with financial terms, saving tips, and scam alerts. What can I look up for you?"
hello_message_english ==
    Str("Hello! You have chosen English. I can help you with ")
    \o Str("financial terms, saving tips, and scam alerts. What can I ")
    \o Str("look up for you?")

\* line 297: "मुझे खोजने के लिए एक स्पष्ट विषय चाहिए! कृपया उस शब्द को निर्दिष्ट करें जिसके बारे में आप अधिक जानकारी चाहते हैं।"
vague_message_hindi ==
    <<2350, 2369, 2333, 2375, 32, 2326, 2379, 2332, 2344, 2375, 32, 2325,
    2375, 32, 2354, 2367, 2319, 32, 2319, 2325, 32, 2360, 2381, 2346, 2359,
    2381, 2335, 32, 2357, 2367, 2359, 2351, 32, 2330, 2366, 2361, 2367, 2319,
    33, 32, 2325, 2371, 2346, 2351, 2366, 32, 2313, 2360, 32, 2358, 2348,
    2381, 2342, 32, 2325, 2379, 32, 2344, 2367, 2352, 2381, 2342, 2367, 2359,
    2381, 2335, 32, 2325, 2352, 2375, 2306, 32, 2332, 2367, 2360, 2325, 2375,
    32, 2348, 2366, 2352, 2375, 32, 2350, 2375, 2306, 32, 2310, 2346, 32,
    2309, 2343, 2367, 2325, 32, 2332, 2366, 2344, 2325, 2366, 2352, 2368, 32,
    2330, 2366, 2361, 2340, 2375, 32, 2361, 2376, 2306, 2404>>

\* line 298: "❌ मैं केवल **वित्तीय साक्षरता** से संबंधित सवालों का जवाब दे सकता हूँ। कृपया कोई वित्तीय शब्द या सलाह पूछें।"
out_of_scope_message_hindi ==
    <<10060, 32, 2350, 2376, 2306, 32, 2325, 2375, 2357, 2354, 32, 42, 42,
    2357, 2367, 2340, 2381, 2340, 2368, 2351, 32, 2360, 2366, 2325, 2381,
    2359, 2352, 2340, 2366, 42, 42, 32, 2360, 2375, 32, 2360, 2306, 2348,
    2306, 2343, 2367, 2340, 32, 2360, 2357, 2366, 2354, 2379, 2306, 32, 2325,
    2366, 32, 2332, 2357, 2366, 2348, 32, 2342, 2375, 32, 2360, 2325, 2340,
    2366, 32, 2361, 2370, 2305, 2404, 32, 2325, 2371, 2346, 2351, 2366, 32,
    2325, 2379, 2312, 32, 2357, 2367, 2340, 2381, 2340, 2368, 2351, 32, 2358,
    2348, 2381, 2342, 32, 2351, 2366, 32, 2360, 2354, 2366, 2361, 32, 2346,
    2370, 2331, 2375, 2306, 2404>>

\* line 302: "I need a clearer topic to search! Please specify the term you want more information about (e.g., 'What is SIP?' or 'Give me a saving tip')."
vague_message_english ==
    Str("I need a clearer topic to search! Please specify the term ")
    \o Str("you want more information about (e.g., 'What is SIP?' or ")
    \o Str("'Give me a saving tip').")

\* line 303: "❌ I can only answer questions related to **Financial Literacy** (terms, tips, and scams). Please ask a financial query."
out_of_scope_message_english ==
    <<10060, 32, 73, 32, 99, 97, 110, 32, 111, 110, 108, 121, 32, 97, 110,
    115, 119, 101, 114, 32, 113, 117, 101, 115, 116, 105, 111, 110, 115, 32,
    114, 101, 108, 97, 116, 101, 100, 32, 116, 111, 32, 42, 42, 70, 105, 110,
    97, 110, 99, 105, 97, 108, 32, 76, 105, 116, 101, 114, 97, 99, 121, 42,
    42, 32, 40, 116, 101, 114, 109, 115, 44, 32, 116, 105, 112, 115, 44, 32,
    97, 110, 100, 32, 115, 99, 97, 109, 115, 41, 46, 32, 80, 108, 101, 97,
    115, 101, 32, 97, 115, 107, 32, 97, 32, 102, 105, 110, 97, 110, 99, 105,
    97, 108, 32, 113, 117, 101, 114, 121, 46>>

\* line 307: "hello", "hi", "hey", "howdy", "sup", "namaste", "namaskar"
short_greetings ==
    <<Str("hello"), Str("hi"), Str("hey"), Str("howdy"), Str("sup"),
    Str("namaste"), Str("namaskar")>>

\* line 308: "thank you", "thanks", "bye", "goodbye", "cheers", "start"
closing_words ==
    <<Str("thank you"), Str("thanks"), Str("bye"), Str("goodbye"),
    Str("cheers"), Str("start")>>

\* line 309: "how are you", "good morning", "good evening"
small_talk_prefixes ==
    <<Str("how are you"), Str("good morning"), Str("good evening")>>

\* line 314: "more", "next", "again", "tell me more"
vague_keywords ==
    <<Str("more"), Str("next"), Str("again"), Str("tell me more")>>

\* line 319: "saving tip", "tip", "bachat", "sujhav"
tip_request_words ==
    <<Str("saving tip"), Str("tip"), Str("bachat"), Str("sujhav")>>

\* line 361: "**📚 Financial Term Explained:**"
header_explained_english ==
    <<42, 42, 128218, 32, 70, 105, 110, 97, 110, 99, 105, 97, 108, 32, 84,
    101, 114, 109, 32, 69, 120, 112, 108, 97, 105, 110, 101, 100, 58, 42, 42>>

\* line 362: "\n***\n**💡 Related Saving Tip:**"
header_tip_english ==
    <<10, 42, 42, 42, 10, 42, 42, 128161, 32, 82, 101, 108, 97, 116, 101, 100,
    32, 83, 97, 118, 105, 110, 103, 32, 84, 105, 112, 58, 42, 42>>

\* line 363: "\n***\n**🚨 Financial Scam Alert:**"
header_scam_english ==
    <<10, 42, 42, 42, 10, 42, 42, 128680, 32, 70, 105, 110, 97, 110, 99, 105,
    97, 108, 32, 83, 99, 97, 109, 32, 65, 108, 101, 114, 116, 58, 42, 42>>

\* line 366: "**📚 वित्तीय शब्द की व्याख्या:**"
header_explained_hindi ==
    <<42, 42, 128218, 32, 2357, 2367, 2340, 2381, 2340, 2368, 2351, 32, 2358,
    2348, 2381, 2342, 32, 2325, 2368, 32, 2357, 2381, 2351, 2366, 2326, 2381,
    2351, 2366, 58, 42, 42>>

\* line 367: "\n***\n**💡 संबंधित बचत सुझाव:**"
header_tip_hindi ==
    <<10, 42, 42, 42, 10, 42, 42, 128161, 32, 2360, 2306, 2348, 2306, 2343,
    2367, 2340, 32, 2348, 2330, 2340, 32, 2360, 2369, 2333, 2366, 2357, 58,
    42, 42>>

\* line 368: "\n***\n**🚨 वित्तीय घोटाला चेतावनी:**"
header_scam_hindi ==
    <<10, 42, 42, 42, 10, 42, 42, 128680, 32, 2357, 2367, 2340, 2381, 2340,
    2368, 2351, 32, 2328, 2379, 2335, 2366, 2354, 2366, 32, 2330, 2375, 2340,
    2366, 2357, 2344, 2368, 58, 42, 42>>

(***************************************************************************)
(* The document source: what json.load returns for financial_data.json.    *)
(* A JSON object is a record; an absent key is an absent field.            *)
(***************************************************************************)
\* dict.get(key, default)
Get(d, key, default) == IF key \in DOMAIN d THEN d[key] ELSE default

TermSIP ==
    [question |-> Str("SIP"),
     response |-> Str("Invest a fixed sum at regular intervals."),
     \* "नियमित निवेश"
     response_hindi |-> <<2344, 2367, 2351, 2350, 2367, 2340, 32, 2344, 2367,
                          2357, 2375, 2358>>,
     keywords |-> <<Str("Systematic Investment")>>]

TermIPO ==
    [question |-> Str("IPO"),
     response |-> Str("First sale of shares to the public.")]

TermEquityFund ==
    [question |-> Str("Equity Fund"),
     response |-> Str("Invests the money in company shares.")]

TermBondFund ==
    [question |-> Str("Bond Fund"),
     response |-> Str("Invests the money in bonds.")]

\* a term named in Devanagari: "बचत", with "अलग रखा धन" as its Hindi text
TermBachat ==
    [question |-> <<2348, 2330, 2340>>,
     response |-> Str("Money kept aside."),
     response_hindi |-> <<2309, 2354, 2327, 32, 2352, 2326, 2366, 32, 2343, 2344>>]

\* a record lacking the required field 'response'
TermNoResponse == [question |-> Str("KYC")]

TipPay ==
    [tip |-> Str("Pay Yourself First"),
     detail |-> Str("Save before you spend."),
     \* "पहले बचत करें"
     detail_hindi |-> <<2346, 2361, 2354, 2375, 32, 2348, 2330, 2340, 32,
                        2325, 2352, 2375, 2306>>]

TipTrack == [tip |-> Str("Track Expenses"), detail |-> Str("Note every expense.")]

TipFund == [tip |-> Str("Emergency Fund"), detail |-> Str("Keep six months of costs.")]

TipDebt == [tip |-> Str("Avoid Debt"), detail |-> Str("Clear credit cards monthly.")]

\* a record lacking the required field 'detail'
TipNoDetail == [tip |-> Str("Buy Bulk")]

ScamPhishing ==
    [scam_name |-> Str("Phishing"),
     warning_sign |-> Str("Urgent mails asking passwords"),
     prevention_tip |-> Str("Never share OTP"),
     \* "पासवर्ड मांगना"
     warning_sign_hindi |-> <<2346, 2366, 2360, 2357, 2352, 2381, 2337, 32,
                              2350, 2366, 2306, 2327, 2344, 2366>>,
     \* "ओटीपी न दें"
     prevention_tip_hindi |-> <<2323, 2335, 2368, 2346, 2368, 32, 2344, 32,
                                2342, 2375, 2306>>]

ScamPonzi ==
    [scam_name |-> Str("Ponzi Scheme"),
     warning_sign |-> Str("Guaranteed high returns"),
     prevention_tip |-> Str("Verify with SEBI")]

\* The file is absent, is not JSON, or holds a JSON object.
SourceMissing == [file |-> "missing"]

SourceUnparsable == [file |-> "unparsable"]

SourceFull ==
    [file |-> "json",
     data |-> [financial_literacy_terms |-> <<TermSIP, TermIPO>>,
               financial_advice |->
                   [saving_tips |-> <<TipPay, TipTrack, TipFund, TipDebt>>,
                    scam_alerts |-> <<ScamPhishing, ScamPonzi>>]]]

SourceSmall ==
    [file |-> "json",
     data |-> [financial_literacy_terms |-> <<TermSIP>>,
               financial_advice |-> [saving_tips |-> <<TipPay, TipTrack>>]]]

\* definitions only, two of them with a common phrase in their text
SourceFunds ==
    [file |-> "json",
     data |-> [financial_literacy_terms |->
                   <<TermEquityFund, TermBondFund, TermBachat>>]]

SourceBadTerm ==
    [file |-> "json",
     data |-> [financial_literacy_terms |-> <<TermSIP, TermNoResponse, TermIPO>>,
               financial_advice |-> [saving_tips |-> <<TipPay>>]]]

SourceBadTip ==
    [file |-> "json",
     data |-> [financial_literacy_terms |-> <<TermIPO>>,
               financial_advice |->
                   [saving_tips |-> <<TipPay, TipNoDetail>>,
                    scam_alerts |-> <<ScamPonzi>>]]]

Sources ==
    {SourceMissing, SourceUnparsable, SourceFull, SourceSmall, SourceFunds,
     SourceBadTerm, SourceBadTip}

(***************************************************************************)
(* load_and_index_data                                                     *)
(***************************************************************************)
\* [word.lower() for word in text.split() if len(word) > 3]
RECURSIVE LongWordsLower(_)
LongWordsLower(words) ==
    IF Len(words) = 0 THEN <<>>
    ELSE (IF Len(Head(words)) > 3 THEN <<Lower(Head(words))>> ELSE <<>>)
         \o LongWordsLower(Tail(words))

LowerAll(list) == [i \in 1..Len(list) |-> Lower(list[i])]

\* line 105-111
TermDoc(item) ==
    [doc_type |-> "Definition",
     search_key |-> item.question,
     content |-> item.response,
     content_hindi |-> Get(item, "response_hindi", translation_not_available),
     keywords |-> <<Lower(item.question)>> \o LowerAll(Get(item, "keywords", <<>>))]

\* line 115-122
TipDoc(item) ==
    [doc_type |-> "Saving Tip",
     search_key |-> item.tip,
     content |-> tip_prefix \o item.detail,
     content_hindi |-> tip_prefix_hindi \o Get(item, "detail_hindi", no_translation_hindi),
     keywords |-> <<Lower(item.tip)>> \o LongWordsLower(Split(item.detail))]

\* line 126-135
ScamDoc(item) ==
    LET scam_content ==
            warning_prefix \o item.warning_sign \o prevention_infix \o item.prevention_tip
        scam_content_hindi ==
            warning_prefix_hindi
            \o Get(item, "warning_sign_hindi", no_translation_hindi)
            \o prevention_infix_hindi
            \o Get(item, "prevention_tip_hindi", no_translation_hindi)
    IN  [doc_type |-> "Scam Alert",
         search_key |-> item.scam_name,
         content |-> scam_content,
         content_hindi |-> scam_content_hindi,
         keywords |-> <<Lower(item.scam_name)>> \o LongWordsLower(Split(scam_content))]

\* The index of the first item whose subscripting raises KeyError, or
\* Len(items) + 1 when every item has the fields the loop body reads.
FirstKeyError(items, required) ==
    LET bad == {i \in 1..Len(items) : ~(required \subseteq DOMAIN items[i])}
    IN  IF bad = {} THEN Len(items) + 1
        ELSE CHOOSE i \in bad : \A j \in bad : i <= j

\* The outcome of load_and_index_data(): the documents appended to
\* SEARCHABLE_DOCUMENTS and whether an exception left the function.  Only
\* FileNotFoundError is caught (line 99); a JSONDecodeError of json.load and
\* a KeyError of a loop body propagate, the latter after the appends that
\* preceded it.
load_and_index_data(src) ==
    IF src.file = "missing" THEN [docs |-> <<>>, raised |-> FALSE]
    ELSE IF src.file = "unparsable" THEN [docs |-> <<>>, raised |-> TRUE]
    ELSE
      LET data == src.data
          terms == Get(data, "financial_literacy_terms", <<>>)
          advice == Get(data, "financial_advice", <<>>)
          tips == Get(advice, "saving_tips", <<>>)
          scams == Get(advice, "scam_alerts", <<>>)
          e1 == FirstKeyError(terms, {"question", "response"})
          e2 == FirstKeyError(tips, {"tip", "detail"})
          e3 == FirstKeyError(scams, {"scam_name", "warning_sign", "prevention_tip"})
          d1 == [i \in 1..(e1 - 1) |-> TermDoc(terms[i])]
          d2 == [i \in 1..(e2 - 1) |-> TipDoc(tips[i])]
          d3 == [i \in 1..(e3 - 1) |-> ScamDoc(scams[i])]
      IN  IF e1 <= Len(terms) THEN [docs |-> d1, raised |-> TRUE]
          ELSE IF e2 <= Len(tips) THEN [docs |-> d1 \o d2, raised |-> TRUE]
          ELSE IF e3 <= Len(scams) THEN [docs |-> d1 \o d2 \o d3, raised |-> TRUE]
          ELSE [docs |-> d1 \o d2 \o d3, raised |-> FALSE]


(***************************************************************************)
(* The generative backend, seen through GEMINI_CLIENT: what the call of    *)
(* line 235-240 produces.  "text" is response.text per requested language; *)
(* "api_error" is an APIError; "exception" is any other Exception, such as *)
(* the AttributeError of the MockGeminiClient of line 20, which has no     *)
(* attribute 'models'.                                                     *)
(***************************************************************************)
BackendText ==
    [kind |-> "text",
     english |-> Str("It stands for: an index of fifty large stocks."),
     \* "इसका मतलब है: निवेश"
     hindi |-> <<2311, 2360, 2325, 2366, 32, 2350, 2340, 2354, 2348, 32, 2361,
                 2376, 58, 32, 2344, 2367, 2357, 2375, 2358>>]

BackendApiError == [kind |-> "api_error", msg |-> Str("503 UNAVAILABLE")]

BackendNoClient ==
    [kind |-> "exception",
     msg |-> Str("'MockGeminiClient' object has no attribute 'models'")]

Backends == {BackendText, BackendApiError, BackendNoClient}

\* no call was made
NoBackend == [kind |-> "none"]

(***************************************************************************)
(* detect_language_from_query, is_query_financial, clean_gemini_output     *)
(***************************************************************************)
IsDevanagari(c) == c >= 2304 /\ c <= 2431    \* 'ऀ' <= char <= 'ॿ'

AnyKeywordIsToken(keywords, words) ==
    \E i \in 1..Len(keywords) : InList(keywords[i], words)

\* the keywords looked for anywhere in the query instead of among its tokens
detect_language_from_query_substring(question) ==
    LET q == Lower(question)
    IN  IF \E i \in 1..Len(q) : IsDevanagari(q[i]) THEN "hindi"
        ELSE IF \E i \in 1..Len(hindi_translit_keywords) :
                    Contains(q, hindi_translit_keywords[i]) THEN "hindi"
        ELSE "english"

\* lines 32-50
detect_language_from_query(question) ==
    LET q == Lower(question)
    IN  IF \E i \in 1..Len(q) : IsDevanagari(q[i]) THEN "hindi"
        ELSE IF AnyKeywordIsToken(hindi_translit_keywords, Split(q)) THEN "hindi"
        ELSE "english"

is_query_financial(question) ==
    \/ AnyKeywordIsToken(financial_keywords, Split(Lower(question)))
    \/ \E i \in 1..Len(financial_substrings_hindi) :
           Contains(question, financial_substrings_hindi[i])

\* The characters of strip(":,.- ")
PreambleStripChars == {58, 44, 46, 45, 32}

\* min of a non-empty set of integers
SetMin(S) == CHOOSE i \in S : \A j \in S : i <= j

\* line 78-82 and 84-88: the text with the first preamble of the list that
\* starts `probe` cut off its front, and the characters of strip(":,.- ")
\* stripped from both ends; the text itself when no preamble starts probe
CutPreamble(text, probe, preambles) ==
    LET hits == {i \in 1..Len(preambles) : StartsWith(probe, preambles[i])}
    IN  IF hits = {} THEN text
        ELSE StripChars(SubSeq(text, Len(preambles[SetMin(hits)]) + 1, Len(text)),
                        PreambleStripChars)

clean_gemini_output(text, question) ==
    LET query_lower == Lower(question)
        preambles_en ==
            <<query_lower \o preamble_stands_for, query_lower \o preamble_is>>
            \o preambles_en_fixed
        cleaned_en == CutPreamble(text, Lower(text), preambles_en)
    IN  CutPreamble(cleaned_en, Strip(cleaned_en), preambles_hi)

\* the except clauses returning no text instead of the description
call_gemini_api_fallback_silent(question, lg, b) ==
    IF b.kind = "text"
    THEN clean_gemini_output(IF lg = "hindi" THEN b.hindi ELSE b.english, question)
    ELSE <<>>

\* call_gemini_api_fallback: the text it returns under backend b
call_gemini_api_fallback(question, lg, b) ==
    IF b.kind = "text"
    THEN clean_gemini_output(IF lg = "hindi" THEN b.hindi ELSE b.english, question)
    ELSE IF b.kind = "api_error" THEN api_error_prefix \o b.msg
    ELSE unknown_error_prefix \o b.msg

(***************************************************************************)
(* search_custom_data: the score of one document (tenths)                  *)
(***************************************************************************)
SCORE_THRESHOLD == 5

\* line 191-195: the intent words
word_scam == Str("scam")
word_tip == Str("tip")
word_save == Str("save")
word_what_is == Str("what is")
word_define == Str("define")
word_term == Str("term")

RECURSIVE KeywordScore(_, _)
KeywordScore(keywords, q) ==
    IF Len(keywords) = 0 THEN 0
    ELSE (IF Contains(q, Head(keywords)) THEN 5 ELSE 0) + KeywordScore(Tail(keywords), q)

IntentScore(doc, q) ==
    IF Contains(q, word_scam) /\ doc.doc_type = "Scam Alert" THEN 15
    ELSE IF (Contains(q, word_tip) \/ Contains(q, word_save))
            /\ doc.doc_type = "Saving Tip" THEN 10
    ELSE IF (Contains(q, word_what_is) \/ Contains(q, word_define)
             \/ Contains(q, word_term))
            /\ doc.doc_type = "Definition" THEN 5
    ELSE 0

\* the search_key compared without .lower()
KeyScore_cased(doc, q) == IF Contains(q, doc.search_key) THEN 10 ELSE 0

\* line 198-199
KeyScore(doc, q) == IF Contains(q, Lower(doc.search_key)) THEN 10 ELSE 0

ContentScore(doc, q) == IF Contains(Lower(doc.content), q) THEN 4 ELSE 0

\* line 189-206, for user_query already lower-cased to q (line 183)
Score(doc, q) ==
    IntentScore(doc, q) + KeyScore(doc, q)
    + KeywordScore(Get(doc, "keywords", <<>>), q) + ContentScore(doc, q)

(***************************************************************************)
(* retrieve_related_info, search_multiple_tips                             *)
(***************************************************************************)
DocsOfType(type) == {i \in 1..Len(docs) : docs[i].doc_type = type}

LocalContent(doc, lg) ==
    Get(doc, IF lg = "hindi" THEN "content_hindi" ELSE "content", doc.content)

\* The values random.choice lets retrieve_related_info return
retrieve_related_info(type, lg) ==
    IF DocsOfType(type) = {} THEN {NoDocument}
    ELSE {[search_key |-> docs[i].search_key,
           doc_type |-> docs[i].doc_type,
           content |-> LocalContent(docs[i], lg)] : i \in DocsOfType(type)}

Min(a, b) == IF a <= b THEN a ELSE b

\* The values of random.sample(tips, k): the sequences of k distinct
\* positions of the store that hold Saving Tips
RECURSIVE Samples(_, _)
Samples(pool, k) ==
    IF k = 0 THEN {<<>>}
    ELSE UNION {{<<i>> \o s : s \in Samples(pool \ {i}, k - 1)} : i \in pool}

\* str(doc['doc_type'])
DocTypeText(type) ==
    IF type = "Definition" THEN text_definition
    ELSE IF type = "Saving Tip" THEN text_saving_tip
    ELSE text_scam_alert

\* line 171-172
TipEntry(n, doc, lg) ==
    IntToStr(n) \o fmt_dot_bold \o doc.search_key \o fmt_open \o DocTypeText(doc.doc_type)
    \o fmt_close_bold \o NL \o fmt_indent \o LocalContent(doc, lg) \o NL \o NL

RECURSIVE TipEntries(_, _, _)
TipEntries(sample, n, lg) ==
    IF n > Len(sample) THEN <<>>
    ELSE TipEntry(n, docs[sample[n]], lg) \o TipEntries(sample, n + 1, lg)

\* line 162-174: the listing for the sample drawn at line 160
TipListing(sample, lg) ==
    Strip((IF lg = "hindi"
           THEN tips_header_hindi_1 \o IntToStr(Len(sample)) \o tips_header_hindi_2
           ELSE tips_header_english_1 \o IntToStr(Len(sample)) \o tips_header_english_2)
          \o TipEntries(sample, 1, lg))


(***************************************************************************)
(* The messages the transport delivers (whatsapp_quickstart.py hands the   *)
(* text of each inbound message to get_chatbot_response).                  *)
(***************************************************************************)
Utterances ==
    {Str("2"), Str(" Hindi "), Str("h"), Str("1"), Str("English"), Str("E"),
     Str("hello"), Str("Hello what is SIP"), Str("thanks"),
     Str("Good morning tips"), Str("3 tips for this"), Str("namaste"),
     Str("ok thanks"), Str("more"), Str("kya hua"),
     Str("give me 3 saving tips"), Str("two tips"), Str("5 tips please"),
     Str("1 tip or many"), Str("2 or three tips"), Str("teen bachat sujhav"),
     <<2409, 32, 116, 105, 112, 115>>,                  \* "३ tips"
     Str("give me a saving tip"), Str("how to save money"),
     Str("What is SIP?"), Str("SIP"), Str("Define IPO"), Str("what is nifty"),
     Str("explain systematic investment plans"),
     Str("tell me about nifty"), Str("mujhe nifty batao"),
     <<2348, 2330, 2340, 32, 2325, 2381, 2351, 2366, 32, 2361, 2376>>,
                                                        \* "बचत क्या है"
     Str("phishing scam"), Str("at regular intervals"),
     Str("tell me about cricket"), Str("ponzi scheme"),
     Str("invests the money"),
     <<2348, 2330, 2340>>}    \* "बचत"

NoCalls ==
    [search_custom_data |-> 0, search_multiple_tips |-> 0,
     retrieve_related_info |-> 0, call_gemini_api_fallback |-> 0]

Called(f) == [calls EXCEPT ![f] = @ + 1]

(***************************************************************************)
(* Module initialization (line 410-413) and the request loop               *)
(***************************************************************************)
Init ==
    /\ source \in Sources
    /\ pc = "import"
    /\ docs = <<>>
    /\ user_question = NoText
    /\ query = NoText
    /\ lang = None
    /\ count = 0
    /\ scan_i = 0
    /\ highest_score = 0
    /\ top_matches = <<>>
    /\ primary_match = NoDocument
    /\ backend = NoBackend
    /\ gemini_text = NoText
    /\ selected_tips = <<>>
    /\ core = NoText
    /\ reply = NoText
    /\ calls = NoCalls
    /\ prev = NoRequest

\* line 413: load_and_index_data() runs as chatbot.py is imported; an
\* exception leaving it ends the import, and with it the process.
LoadData ==
    /\ pc = "import"
    /\ LET r == load_and_index_data(source)
       IN  /\ docs' = r.docs
           /\ pc' = IF r.raised THEN "crashed" ELSE "idle"
    /\ UNCHANGED <<source, user_question, query, lang, count, scan_i,
                   highest_score, top_matches, primary_match, backend, gemini_text,
                   selected_tips, core, reply, calls, prev>>

\* get_chatbot_response(user_question) is entered; line 255
Receive ==
    /\ pc = "idle"
    /\ \E u \in Utterances :
          /\ user_question' = u
          /\ query' = Strip(Lower(u))
    /\ pc' = "language_selection"
    /\ UNCHANGED <<source, docs, lang, count, scan_i, highest_score,
                   top_matches, primary_match, backend, gemini_text, selected_tips,
                   core, reply, calls, prev>>

\* The request ends with the text `text`, whose part that is not
\* enrichment is `c`
Return(text, c) ==
    /\ reply' = text
    /\ core' = c
    /\ pc' = "return"

\* line 271, 273
english_choices == {Str("1"), Str("english"), Str("e")}

\* a choice left out of the tuple of line 273
hindi_choices_short == {Str("2"), Str("hindi")}

hindi_choices == {Str("2"), Str("hindi"), Str("h")}

\* line 269-284
LanguageSelectionCheck ==
    /\ pc = "language_selection"
    /\ LET explicit_lang ==
               IF query \in english_choices THEN "english"
               ELSE IF query \in hindi_choices THEN "hindi"
               ELSE None
       IN  IF explicit_lang # None
           THEN /\ lang' = explicit_lang
                /\ IF explicit_lang = "hindi"
                   THEN Return(hello_message_hindi, hello_message_hindi)
                   ELSE Return(hello_message_english, hello_message_english)
           ELSE /\ pc' = "language_detection"
                /\ UNCHANGED <<lang, reply, core>>
    /\ UNCHANGED <<source, docs, user_question, query, count, scan_i,
                   highest_score, top_matches, primary_match, backend, gemini_text,
                   selected_tips, calls, prev>>

\* line 288
LanguageAutoDetection ==
    /\ pc = "language_detection"
    /\ lang' = detect_language_from_query(user_question)
    /\ pc' = "conversational_check"
    /\ UNCHANGED <<source, docs, user_question, query, count, scan_i,
                   highest_score, top_matches, primary_match, backend, gemini_text,
                   selected_tips, core, reply, calls, prev>>

\* line 294-303
vague_message == IF lang = "hindi" THEN vague_message_hindi ELSE vague_message_english

out_of_scope_message ==
    IF lang = "hindi" THEN out_of_scope_message_hindi ELSE out_of_scope_message_english

\* the greeting words matched against the tokens of the query instead of
\* as substrings of it
IsGreeting_tokens(q) ==
    \/ \E i \in 1..Len(short_greetings) : InList(short_greetings[i], Split(q))
    \/ InList(q, closing_words)
    \/ \E i \in 1..Len(small_talk_prefixes) : StartsWith(q, small_talk_prefixes[i])

\* line 308-309
IsGreeting(q) ==
    \/ \E i \in 1..Len(short_greetings) : Contains(q, short_greetings[i])
    \/ InList(q, closing_words)
    \/ \E i \in 1..Len(small_talk_prefixes) : StartsWith(q, small_talk_prefixes[i])

\* line 306-311
ConversationalCheck ==
    /\ pc = "conversational_check"
    /\ IF IsGreeting(query)
       THEN Return(language_menu, language_menu)
       ELSE /\ pc' = "vague_check"
            /\ UNCHANGED <<reply, core>>
    /\ UNCHANGED <<source, docs, user_question, query, lang, count, scan_i,
                   highest_score, top_matches, primary_match, backend, gemini_text,
                   selected_tips, calls, prev>>

\* line 315 without the token bound: every utterance is_query_financial
\* rejects is vague
IsVague_nonfinancial(q, question) ==
    \/ InList(q, vague_keywords)
    \/ ~is_query_financial(question)

\* the token bound of line 315 taken as "fewer than two"
IsVague_strict(q, question) ==
    \/ InList(q, vague_keywords)
    \/ (Len(Split(q)) < 2 /\ ~is_query_financial(question))

\* line 314-315
IsVague(q, question) ==
    \/ InList(q, vague_keywords)
    \/ (Len(Split(q)) <= 2 /\ ~is_query_financial(question))

\* line 313-316
VagueQueryCheck ==
    /\ pc = "vague_check"
    /\ IF IsVague(query, user_question)
       THEN Return(vague_message, vague_message)
       ELSE /\ pc' = "tip_check"
            /\ UNCHANGED <<reply, core>>
    /\ UNCHANGED <<source, docs, user_question, query, lang, count, scan_i,
                   highest_score, top_matches, primary_match, backend, gemini_text,
                   selected_tips, calls, prev>>

\* line 319
IsTipRequest(q) == \E i \in 1..Len(tip_request_words) : Contains(q, tip_request_words[i])

\* line 322
number_map ==
    <<<<Str("two"), 2>>, <<Str("three"), 3>>, <<Str("four"), 4>>, <<Str("5"), 5>>,
      <<Str("five"), 5>>, <<Str("multiple"), 3>>, <<Str("several"), 3>>,
      <<Str("many"), 3>>, <<Str("do"), 2>>, <<Str("teen"), 3>>, <<Str("char"), 4>>,
      <<Str("paanch"), 5>>>>

InNumberMap(word) == \E i \in 1..Len(number_map) : number_map[i][1] = word

NumberMapValue(word) ==
    number_map[CHOOSE i \in 1..Len(number_map) : number_map[i][1] = word][2]

\* the loop without its break statements: the last resolving token wins
RECURSIVE ResolveCount_last(_)
ResolveCount_last(words) ==
    IF Len(words) = 0 THEN 1
    ELSE LET rest == ResolveCount_last(Tail(words))
         IN  IF rest # 1 THEN rest
             ELSE IF InNumberMap(Head(words)) THEN NumberMapValue(Head(words))
             ELSE IF IsDigit(Head(words)) /\ ToInt(Head(words)) > 1 THEN ToInt(Head(words))
             ELSE 1

\* line 320-333: the count the loop over query_words leaves
RECURSIVE ResolveCount(_)
ResolveCount(words) ==
    IF Len(words) = 0 THEN 1
    ELSE IF InNumberMap(Head(words)) THEN NumberMapValue(Head(words))
    ELSE IF IsDigit(Head(words)) /\ ToInt(Head(words)) > 1 THEN ToInt(Head(words))
    ELSE ResolveCount(Tail(words))

\* line 318-336
MultipleTipRequestCheck ==
    /\ pc = "tip_check"
    /\ IF IsTipRequest(query)
       THEN /\ count' = ResolveCount(Split(query))
            /\ pc' = IF count' > 1 THEN "search_multiple_tips" ELSE "search"
       ELSE /\ pc' = "search"
            /\ UNCHANGED count
    /\ UNCHANGED <<source, docs, user_question, query, lang, scan_i,
                   highest_score, top_matches, primary_match, backend, gemini_text,
                   selected_tips, core, reply, calls, prev>>

\* line 336, search_multiple_tips (line 156-174)
SearchMultipleTips ==
    /\ pc = "search_multiple_tips"
    /\ LET tips == DocsOfType("Saving Tip")
           num_to_return == Min(count, Cardinality(tips))
       IN  \E sample \in Samples(tips, num_to_return) :
              /\ selected_tips' = sample
              /\ Return(TipListing(sample, lang), TipListing(sample, lang))
    /\ calls' = Called("search_multiple_tips")
    /\ UNCHANGED <<source, docs, user_question, query, lang, count, scan_i,
                   highest_score, top_matches, primary_match, backend, gemini_text, prev>>

\* line 339, search_custom_data line 183-186
SearchCustomData ==
    /\ pc = "search"
    /\ scan_i' = 1
    /\ highest_score' = 0
    /\ top_matches' = <<>>
    /\ calls' = Called("search_custom_data")
    /\ pc' = "scan"
    /\ UNCHANGED <<source, docs, user_question, query, lang, count,
                   primary_match, backend, gemini_text, selected_tips, core, reply, prev>>

\* one iteration of the loop without the elif of line 211: a document
\* equal to the maximum is not appended
ScanDocument_first ==
    /\ pc = "scan"
    /\ scan_i <= Len(docs)
    /\ LET score == Score(docs[scan_i], Lower(user_question))
       IN  IF score > highest_score
           THEN /\ highest_score' = score
                /\ top_matches' = <<scan_i>>
           ELSE UNCHANGED <<highest_score, top_matches>>
    /\ scan_i' = scan_i + 1
    /\ UNCHANGED <<source, pc, docs, user_question, query, lang, count,
                   primary_match, backend, gemini_text, selected_tips, core, reply,
                   calls, prev>>

\* line 188-212: one iteration of the loop over SEARCHABLE_DOCUMENTS
ScanDocument ==
    /\ pc = "scan"
    /\ scan_i <= Len(docs)
    /\ LET score == Score(docs[scan_i], Lower(user_question))
       IN  IF score > highest_score
           THEN /\ highest_score' = score
                /\ top_matches' = <<scan_i>>
           ELSE IF score = highest_score /\ score >= SCORE_THRESHOLD
           THEN /\ top_matches' = Append(top_matches, scan_i)
                /\ UNCHANGED highest_score
           ELSE UNCHANGED <<highest_score, top_matches>>
    /\ scan_i' = scan_i + 1
    /\ UNCHANGED <<source, pc, docs, user_question, query, lang, count,
                   primary_match, backend, gemini_text, selected_tips, core, reply,
                   calls, prev>>

\* random.choice over the whole store instead of over top_matches
MatchChoices_any(top, highest) ==
    IF highest >= SCORE_THRESHOLD /\ top # <<>>
    THEN {docs[i] : i \in 1..Len(docs)}
    ELSE {NoDocument}

\* line 214-217: the values search_custom_data can return, random.choice
\* among the tie set or None
MatchChoices(top, highest) ==
    IF highest >= SCORE_THRESHOLD /\ top # <<>>
    THEN {docs[top[k]] : k \in 1..Len(top)}
    ELSE {NoDocument}

SearchReturn ==
    /\ pc = "scan"
    /\ scan_i > Len(docs)
    /\ primary_match' \in MatchChoices(top_matches, highest_score)
    /\ pc' = "fallback"
    /\ UNCHANGED <<source, docs, user_question, query, lang, count, scan_i,
                   highest_score, top_matches, backend, gemini_text, selected_tips,
                   core, reply, calls, prev>>

\* the relevance test dropped from the condition of line 342
ShouldFallBack_ungated(match, question) == match = NoDocument

\* line 342
ShouldFallBack(match, question) ==
    match = NoDocument /\ is_query_financial(question)

\* line 342-350; the backend's behaviour is the environment's choice
FallbackLogic ==
    /\ pc = "fallback"
    /\ IF ShouldFallBack(primary_match, user_question)
       THEN \E b \in Backends :
              /\ backend' = b
              /\ gemini_text' = call_gemini_api_fallback(user_question, lang, b)
              /\ primary_match' =
                     [doc_type |-> "Definition",
                      search_key |-> user_question,
                      content |-> gemini_text']
              /\ calls' = Called("call_gemini_api_fallback")
       ELSE UNCHANGED <<primary_match, backend, gemini_text, calls>>
    /\ pc' = "process"
    /\ UNCHANGED <<source, docs, user_question, query, lang, count, scan_i,
                   highest_score, top_matches, selected_tips, core, reply, prev>>

\* line 359-370
localized_header(lg, section) ==
    IF lg = "hindi"
    THEN (IF section = "explained" THEN header_explained_hindi
          ELSE IF section = "tip" THEN header_tip_hindi ELSE header_scam_hindi)
    ELSE (IF section = "explained" THEN header_explained_english
          ELSE IF section = "tip" THEN header_tip_english ELSE header_scam_english)

\* line 391, 395, 402: f"**{search_key} ({doc_type}):**\n{content}"
FormatEntry(search_key, doc_type, content) ==
    fmt_bold \o search_key \o fmt_open \o DocTypeText(doc_type) \o fmt_close_bold
    \o NL \o content

\* line 374-387: the first of response_parts
DefinitionPart(match, question, lg) ==
    LET definition_title ==
            IF match.search_key = question
            THEN (IF lg = "hindi" THEN question ELSE Title(question))
            ELSE match.search_key
        body ==
            IF match.search_key = question THEN match.content
            ELSE LocalContent(match, lg)
    IN  localized_header(lg, "explained") \o NL \o fmt_bold \o definition_title
        \o fmt_bold_colon \o NL \o body

\* line 389-395: the parts one enrichment document adds
EnrichmentParts(related, lg, section) ==
    IF related = NoDocument THEN <<>>
    ELSE <<localized_header(lg, section),
           FormatEntry(related.search_key, related.doc_type, related.content)>>

\* line 353-407
ProcessPrimaryMatch ==
    /\ pc = "process"
    /\ IF primary_match # NoDocument
       THEN IF primary_match.doc_type = "Definition"
            THEN \E tip \in retrieve_related_info("Saving Tip", lang),
                    scam \in retrieve_related_info("Scam Alert", lang) :
                   /\ Return(Join(NL, <<DefinitionPart(primary_match, user_question, lang)>>
                                      \o EnrichmentParts(tip, lang, "tip")
                                      \o EnrichmentParts(scam, lang, "scam")),
                             DefinitionPart(primary_match, user_question, lang))
                   /\ calls' = [calls EXCEPT !["retrieve_related_info"] = @ + 2]
            ELSE /\ Return(FormatEntry(primary_match.search_key, primary_match.doc_type,
                                       LocalContent(primary_match, lang)),
                           FormatEntry(primary_match.search_key, primary_match.doc_type,
                                       LocalContent(primary_match, lang)))
                 /\ UNCHANGED calls
       ELSE /\ Return(out_of_scope_message, out_of_scope_message)
            /\ UNCHANGED calls
    /\ UNCHANGED <<source, docs, user_question, query, lang, count, scan_i,
                   highest_score, top_matches, primary_match, backend, gemini_text,
                   selected_tips, prev>>

\* The reply goes back to the transport and the next message is awaited;
\* nothing of the request is kept.
EndRequest ==
    /\ pc = "return"
    /\ pc' = "idle"
    /\ user_question' = NoText
    /\ query' = NoText
    /\ lang' = None
    /\ count' = 0
    /\ scan_i' = 0
    /\ highest_score' = 0
    /\ top_matches' = <<>>
    /\ primary_match' = NoDocument
    /\ backend' = NoBackend
    /\ gemini_text' = NoText
    /\ selected_tips' = <<>>
    /\ core' = NoText
    /\ reply' = NoText
    /\ calls' = NoCalls
    /\ UNCHANGED <<source, docs>>

Respond ==
    /\ EndRequest
    /\ UNCHANGED prev

Next ==
    \/ LoadData
    \/ Receive
    \/ LanguageSelectionCheck
    \/ LanguageAutoDetection
    \/ ConversationalCheck
    \/ VagueQueryCheck
    \/ MultipleTipRequestCheck
    \/ SearchMultipleTips
    \/ SearchCustomData
    \/ ScanDocument
    \/ SearchReturn
    \/ FallbackLogic
    \/ ProcessPrimaryMatch
    \/ Respond

Spec == Init /\ [][Next]_vars

(***************************************************************************)
(* The same message delivered again: the observer records each request as  *)
(* it ends, and every later message repeats the first one.                 *)
(***************************************************************************)
ReceiveFirst ==
    /\ prev = NoRequest
    /\ Receive

ReceiveAgain ==
    /\ prev # NoRequest
    /\ pc = "idle"
    /\ user_question' = prev.utterance
    /\ query' = Strip(Lower(prev.utterance))
    /\ pc' = "language_selection"
    /\ UNCHANGED <<source, docs, lang, count, scan_i, highest_score,
                   top_matches, primary_match, backend, gemini_text, selected_tips,
                   core, reply, calls, prev>>

RespondRecorded ==
    /\ EndRequest
    /\ prev' = [utterance |-> user_question, core |-> core,
                gemini_text |-> gemini_text, reply |-> reply]

NextRepeat ==
    \/ LoadData
    \/ ReceiveFirst
    \/ ReceiveAgain
    \/ LanguageSelectionCheck
    \/ LanguageAutoDetection
    \/ ConversationalCheck
    \/ VagueQueryCheck
    \/ MultipleTipRequestCheck
    \/ SearchMultipleTips
    \/ SearchCustomData
    \/ ScanDocument
    \/ SearchReturn
    \/ FallbackLogic
    \/ ProcessPrimaryMatch
    \/ RespondRecorded

SpecRepeat == Init /\ [][NextRepeat]_vars

(***************************************************************************)
(* detect_language_from_query on its own: every utterance of at most       *)
(* MaxLen characters over DetectAlphabet is handed to the detector.        *)
(***************************************************************************)
MaxLen == 5

\* 'k', 'y', 'a', 'K', ' ', '\t' and the Devanagari letter 'ब'
DetectAlphabet == {107, 121, 97, 75, 32, 9, 2348}

DetectInputs == UNION {[1..n -> DetectAlphabet] : n \in 0..MaxLen}

InitDetect ==
    /\ source = SourceMissing
    /\ pc = "detect_input"
    /\ docs = <<>>
    /\ user_question \in DetectInputs
    /\ query = NoText
    /\ lang = None
    /\ count = 0
    /\ scan_i = 0
    /\ highest_score = 0
    /\ top_matches = <<>>
    /\ primary_match = NoDocument
    /\ backend = NoBackend
    /\ gemini_text = NoText
    /\ selected_tips = <<>>
    /\ core = NoText
    /\ reply = NoText
    /\ calls = NoCalls
    /\ prev = NoRequest

\* lang = detect_language_from_query(user_question)
DetectLanguage ==
    /\ pc = "detect_input"
    /\ lang' = detect_language_from_query(user_question)
    /\ pc' = "detected"
    /\ UNCHANGED <<source, docs, user_question, query, count, scan_i,
                   highest_score, top_matches, primary_match, backend,
                   gemini_text, selected_tips, core, reply, calls, prev>>

NextDetect == DetectLanguage

SpecDetect == InitDetect /\ [][NextDetect]_vars


(***************************************************************************)
(* Properties                                                              *)
(***************************************************************************)
\* A request is being served
InRequest == pc \notin {"import", "idle", "crashed"}

\* The lowercased, trimmed form of the utterance being served
Normalized == Strip(Lower(user_question))

\* The first position of p in q, 0 when p does not occur
FirstPos(q, p) ==
    LET at == {i \in 1..(Len(q) - Len(p) + 1) : SubSeq(q, i, i + Len(p) - 1) = p}
    IN  IF at = {} THEN 0 ELSE CHOOSE i \in at : \A j \in at : i <= j

ChoosesHindi == Normalized \in {Str("2"), Str("hindi"), Str("h")}
ChoosesEnglish == Normalized \in {Str("1"), Str("english"), Str("e")}

\* C1: an utterance whose lowercased, trimmed form is "2", "hindi" or "h" is
\* answered with the Hindi confirmation, and "1", "english" or "e" with the
\* English one; the request goes from the language check straight to its
\* return, and neither the retriever, the tip listing, the enrichment
\* lookups nor the generative fallback is called on the way.
C1_ExplicitChoiceEndsRequest ==
    (InRequest /\ (ChoosesHindi \/ ChoosesEnglish)) =>
        /\ pc \in {"language_selection", "return"}
        /\ calls = NoCalls
        /\ pc = "return" =>
               reply = IF ChoosesHindi THEN hello_message_hindi
                       ELSE hello_message_english

C1_Witness ==
    /\ pc = "return"
    /\ user_question = Str(" Hindi ")
    /\ reply = hello_message_hindi
    /\ Len(docs) > 0

GreetingWord ==
    \E g \in {Str("hello"), Str("hi"), Str("hey"), Str("howdy"), Str("sup"),
              Str("namaste"), Str("namaskar")} : Contains(Normalized, g)

ClosingWord ==
    Normalized \in {Str("thank you"), Str("thanks"), Str("bye"), Str("goodbye"),
                    Str("cheers"), Str("start")}

SmallTalk ==
    \E p \in {Str("how are you"), Str("good morning"), Str("good evening")} :
        StartsWith(Normalized, p)

Greets == ~ChoosesHindi /\ ~ChoosesEnglish /\ (GreetingWord \/ ClosingWord \/ SmallTalk)

\* C2: an utterance that is no explicit language choice and that contains a
\* greeting word, equals a closing word or starts with a small-talk phrase
\* is answered with the language menu, English listed before Hindi,
\* whatever the detected locale and whatever else the utterance matches;
\* the request never gets past the conversational check, and no retrieval,
\* listing, enrichment or fallback call is made.
C2_GreetingGetsMenu ==
    (InRequest /\ Greets) =>
        /\ pc \in {"language_selection", "language_detection",
                   "conversational_check", "return"}
        /\ calls = NoCalls
        /\ pc = "return" =>
               /\ reply = language_menu
               /\ FirstPos(reply, Str("1. English")) > 0
               /\ FirstPos(reply, Str("1. English")) < FirstPos(reply, Str("2. Hindi"))

\* "Hello what is SIP" on a store holding the definition of SIP: the
\* greeting wins over the definition request
C2_Witness ==
    /\ pc = "return"
    /\ user_question = Str("Hello what is SIP")
    /\ source = SourceFull
    /\ reply = language_menu

\* C3: call_gemini_api_fallback is called at most once per request, and
\* only after search_custom_data ran over the whole store with no document
\* reaching the threshold, for an utterance is_query_financial accepts;
\* never for an explicit language choice, a greeting, a vague-query reply
\* or a tip listing.
C3_FallbackOnlyWhenUnmatchedAndFinancial ==
    /\ calls.call_gemini_api_fallback <= 1
    /\ calls.call_gemini_api_fallback = 1 =>
           /\ pc \in {"process", "return"}
           /\ calls.search_custom_data = 1
           /\ calls.search_multiple_tips = 0
           /\ scan_i > Len(docs)
           /\ \A i \in 1..Len(docs) :
                  Score(docs[i], Lower(user_question)) < SCORE_THRESHOLD
           /\ is_query_financial(user_question)
           /\ ~ChoosesHindi /\ ~ChoosesEnglish /\ ~Greets
           /\ reply \notin {language_menu, hello_message_hindi, hello_message_english,
                            vague_message_hindi, vague_message_english}

C3_Witness ==
    /\ pc = "return"
    /\ calls.call_gemini_api_fallback = 1
    /\ user_question = Str("tell me about nifty")
    /\ source = SourceFull


\* The backend call of the request raised
BackendRaised == backend.kind \in {"api_error", "exception"}

\* C4: when the backend call of the fallback raises, APIError or any other
\* exception, the request goes on to compose its reply and returns: the
\* reply is a non-empty text, the Definition response whose body is the
\* error description (the text returned for the exception, holding its
\* message).
C4_BackendFailureBecomesReply ==
    BackendRaised =>
        /\ pc \in {"process", "return"}
        /\ pc = "process" => ENABLED ProcessPrimaryMatch
        /\ gemini_text # NoText
        /\ Contains(gemini_text, backend.msg)
        /\ StartsWith(gemini_text,
                      IF backend.kind = "api_error"
                      THEN Str("A Gemini API error occurred: ")
                      ELSE Str("An unknown error occurred: "))
        /\ pc = "return" =>
               /\ reply # NoText
               /\ Len(reply) > 0
               /\ StartsWith(reply, localized_header(lang, "explained"))
               /\ Contains(reply, Str("**:") \o NL \o gemini_text)

C4_Witness ==
    /\ pc = "return"
    /\ backend = BackendNoClient
    /\ user_question = Str("mujhe nifty batao")
    /\ lang = "hindi"
    /\ Contains(reply, Str("object has no attribute 'models'"))

\* The value a token gives the tip count: a number word's, a numeral's when
\* it is above 1, and 0 for a token that does not resolve the count
CountOfToken(w) ==
    IF w \in {Str("two"), Str("do")} THEN 2
    ELSE IF w \in {Str("three"), Str("multiple"), Str("several"), Str("many"),
                   Str("teen")} THEN 3
    ELSE IF w \in {Str("four"), Str("char")} THEN 4
    ELSE IF w \in {Str("five"), Str("5"), Str("paanch")} THEN 5
    ELSE IF IsDigit(w) /\ ToInt(w) > 1 THEN ToInt(w)
    ELSE 0

\* The count of the first count-resolving token of the utterance, 1 when
\* there is none
RequestedCount ==
    LET words == Split(Normalized)
        resolving == {i \in 1..Len(words) : CountOfToken(words[i]) > 0}
    IN  IF resolving = {} THEN 1 ELSE CountOfToken(words[SetMin(resolving)])

HasTipWord ==
    \E w \in {Str("tip"), Str("saving tip"), Str("bachat"), Str("sujhav")} :
        Contains(Normalized, w)

Occurrences(q, p) ==
    Cardinality({i \in 1..(Len(q) - Len(p) + 1) : SubSeq(q, i, i + Len(p) - 1) = p})

\* The line that opens entry k of a listing
EntryLabel(k) ==
    IntToStr(k) \o Str(". **") \o docs[selected_tips[k]].search_key
    \o Str(" (Saving Tip):**")

\* C5: a request that reaches the tip check with a tip word and whose first
\* count-resolving token gives n > 1 does not go on to single retrieval: it
\* returns a listing of exactly min(n, number of Saving Tips stored)
\* entries, every one a Saving Tip, no document twice, labelled 1, 2, ...
\* in that order.
C5_TipListing ==
    /\ (pc \in {"search", "scan", "fallback", "process"}
        \/ (pc = "return" /\ calls.search_custom_data = 1)) =>
           ~(HasTipWord /\ RequestedCount > 1)
    /\ (pc = "search_multiple_tips"
        \/ (pc = "return" /\ calls.search_multiple_tips = 1)) =>
           /\ HasTipWord
           /\ RequestedCount > 1
           /\ count = RequestedCount
    /\ (pc = "return" /\ calls.search_multiple_tips = 1) =>
           LET m == Min(RequestedCount, Cardinality(DocsOfType("Saving Tip")))
           IN  /\ Len(selected_tips) = m
               /\ \A k \in 1..m : docs[selected_tips[k]].doc_type = "Saving Tip"
               /\ \A j, k \in 1..m :
                      j # k => /\ selected_tips[j] # selected_tips[k]
                               /\ docs[selected_tips[j]] # docs[selected_tips[k]]
               /\ Occurrences(reply, Str(". **")) = m
               /\ \A k \in 1..m : Occurrences(reply, EntryLabel(k)) = 1
               /\ \A j, k \in 1..m :
                      j < k => FirstPos(reply, EntryLabel(j)) < FirstPos(reply, EntryLabel(k))
               /\ StartsWith(reply,
                             IF lang = "hindi"
                             THEN tips_header_hindi_1 \o IntToStr(m)
                             ELSE Str("Here are ") \o IntToStr(m) \o Str(" popular"))

C5_Witness ==
    /\ pc = "return"
    /\ user_question = Str("give me 3 saving tips")
    /\ source = SourceFull
    /\ count = 3
    /\ Len(selected_tips) = 3
    /\ Contains(reply, Str("3. **"))


\* The request being answered repeats the previous one, and the backend,
\* if called, returned what it returned then
RepeatedRequest ==
    /\ pc = "return"
    /\ prev # NoRequest
    /\ prev.utterance = user_question
    /\ prev.gemini_text = gemini_text

\* C6 as stated: two runs on the same utterance and store, the backend
\* returning the same text, give the same core content (the reply without
\* its enrichment sections).
C6_SameCoreOnEveryRepeat == RepeatedRequest => core = prev.core

\* The listing of the request was drawn from two or more Saving Tips
SampledListing ==
    calls.search_multiple_tips = 1 /\ Cardinality(DocsOfType("Saving Tip")) >= 2

\* C6, amended: the core content of the two runs is the same whenever the
\* retriever's tie set holds at most one document and the reply is not a
\* tip listing drawn from two or more Saving Tips; with a larger tie set
\* the primary document of each run is some member of the tie set.
C6_SameCoreUnlessTieOrSample ==
    /\ (RepeatedRequest /\ Len(top_matches) <= 1 /\ ~SampledListing) =>
           core = prev.core
    /\ (pc = "return" /\ Len(top_matches) >= 2) =>
           \E k \in 1..Len(top_matches) : primary_match = docs[top_matches[k]]

\* the same definition answered twice, with different enrichment
C6_Witness ==
    /\ RepeatedRequest
    /\ user_question = Str("What is SIP?")
    /\ source = SourceFull
    /\ Len(top_matches) = 1
    /\ core = prev.core
    /\ reply # prev.reply


\* The document source is absent, is not JSON, or holds a record without a
\* field the loader reads
SourceMissingOrMalformed ==
    \/ source.file \in {"missing", "unparsable"}
    \/ source \in {SourceBadTerm, SourceBadTip}

\* C7: with a missing or malformed document source the load fails without
\* ending the process and leaves the store empty, nothing partially
\* loaded; every search on it returns no match.
C7_LoadFailureLeavesProcessAndEmptyStore ==
    (pc # "import" /\ SourceMissingOrMalformed) =>
        /\ pc # "crashed"
        /\ docs = <<>>
        /\ pc \in {"fallback", "process", "return"} =>
               (primary_match = NoDocument \/ calls.call_gemini_api_fallback = 1)

\* C8: an utterance that is no explicit language choice and no greeting,
\* has at most two whitespace tokens and is not finance-relevant gets the
\* vague-query message, the Hindi one exactly when the detector says
\* hindi; the request ends at the vague check, with no retrieval, listing,
\* enrichment or fallback call.
C8_ShortNonFinancialIsVague ==
    (InRequest /\ ~ChoosesHindi /\ ~ChoosesEnglish /\ ~Greets
     /\ Len(Split(Normalized)) <= 2 /\ ~is_query_financial(user_question)) =>
        /\ pc \in {"language_selection", "language_detection",
                   "conversational_check", "vague_check", "return"}
        /\ calls = NoCalls
        /\ pc = "return" =>
               reply = IF detect_language_from_query(user_question) = "hindi"
                       THEN vague_message_hindi
                       ELSE vague_message_english

C8_Witness ==
    /\ pc = "return"
    /\ user_question = Str("ok thanks")
    /\ Len(docs) > 0
    /\ reply = vague_message_english

\* Document i is a Definition, the lowercased query holds one of the
\* definition intent words and the lowercased search_key of the document
DefinitionAsked(i) ==
    LET q == Lower(user_question)
    IN  /\ docs[i].doc_type = "Definition"
        /\ \E w \in {Str("what is"), Str("define"), Str("term")} : Contains(q, w)
        /\ Contains(q, Lower(docs[i].search_key))

MatchingKeywords(i) ==
    Cardinality({k \in 1..Len(docs[i].keywords) :
                    Contains(Lower(user_question), docs[i].keywords[k])})

\* C9: a Definition whose lowercased search_key occurs in a query holding
\* "what is", "define" or "term" scores at least 1.5, namely 0.5 + 1.0 and
\* 0.5 more for each of its keywords occurring in the query; once the loop
\* has passed it the running maximum is at least that, and the search
\* returns a stored document instead of None.
C9_AskedDefinitionScores ==
    (pc \in {"scan", "fallback", "process", "return"} /\ calls.search_custom_data = 1) =>
        \A i \in 1..(scan_i - 1) :
            DefinitionAsked(i) =>
                /\ Score(docs[i], Lower(user_question)) >= 15 + 5 * MatchingKeywords(i)
                /\ highest_score >= 15 + 5 * MatchingKeywords(i)
                /\ highest_score > SCORE_THRESHOLD
                /\ top_matches # <<>>
                /\ pc # "scan" =>
                       /\ calls.call_gemini_api_fallback = 0
                       /\ \E j \in 1..Len(docs) : primary_match = docs[j]

C9_Witness ==
    /\ pc = "fallback"
    /\ user_question = Str("What is SIP?")
    /\ primary_match # NoDocument
    /\ primary_match.search_key = Str("SIP")
    /\ highest_score = 20


\* The utterance holds a character of U+0900..U+097F
HasDevanagari ==
    \E i \in 1..Len(user_question) : user_question[i] \in 2304..2431

\* The utterance is made of ASCII letters and blanks only
LatinAsciiWords ==
    \A i \in 1..Len(user_question) :
        user_question[i] \in (65..90) \cup (97..122) \cup {32}

\* Keyword k stands in the lowercased utterance as a whole token: it starts
\* at the beginning or after whitespace and stops at the end or before
\* whitespace
StandsAsToken(k) ==
    LET u == Lower(user_question)
    IN  \E p \in 1..Len(u) :
            /\ p + Len(k) - 1 <= Len(u)
            /\ SubSeq(u, p, p + Len(k) - 1) = k
            /\ (p = 1 \/ IsSpace(u[p - 1]))
            /\ (p + Len(k) - 1 = Len(u) \/ IsSpace(u[p + Len(k)]))

SomeKeywordToken ==
    \E i \in 1..Len(hindi_translit_keywords) :
        StandsAsToken(hindi_translit_keywords[i])

\* C10: the detector answers hindi for every utterance holding a
\* Devanagari character, english for every utterance of Latin ASCII words
\* none of which, lowercased, is a transliterated-Hindi keyword, and in
\* general hindi exactly when a Devanagari character is present or some
\* whitespace token equals a keyword.
C10_HindiIffDevanagariOrKeywordToken ==
    pc = "detected" =>
        /\ lang \in {"hindi", "english"}
        /\ HasDevanagari => lang = "hindi"
        /\ (LatinAsciiWords /\ ~SomeKeywordToken) => lang = "english"
        /\ lang = "hindi" <=> (HasDevanagari \/ SomeKeywordToken)

\* "a<TAB>Kya": no Devanagari character, the second token lowercased is a
\* keyword
C10_Witness ==
    /\ pc = "detected"
    /\ user_question = <<97, 9, 75, 121, 97>>
    /\ ~HasDevanagari
    /\ lang = "hindi"


\* The score search_custom_data gives document i for the utterance served
ScoreOf(i) == Score(docs[i], Lower(user_question))

\* The highest score among documents 1..n, 0 when there is none
MaxScoreUpTo(n) ==
    IF \A i \in 1..n : ScoreOf(i) = 0 THEN 0
    ELSE CHOOSE s \in {ScoreOf(i) : i \in 1..n} : \A j \in 1..n : ScoreOf(j) <= s

\* The documents the loop of search_custom_data has passed
Scanned == 1..(scan_i - 1)

TieSet == {top_matches[k] : k \in 1..Len(top_matches)}

\* C11: throughout the scan every member of the tie set scores the running
\* maximum, no document below 0.5 is appended to a tie set, and once the
\* maximum is at least 0.5 the tie set is exactly the set of documents
\* attaining it; search_custom_data returns None exactly when no document
\* of the store scores at least 0.5, and otherwise any of the documents
\* attaining the maximum over the whole store, and only those.
C11_TieSetIsTheSetOfMaxima ==
    /\ pc = "scan" =>
          /\ highest_score = MaxScoreUpTo(scan_i - 1)
          /\ TieSet \subseteq Scanned
          /\ \A k \in 1..Len(top_matches) : ScoreOf(top_matches[k]) = highest_score
          /\ \A k \in 2..Len(top_matches) :
                /\ top_matches[k - 1] < top_matches[k]
                /\ ScoreOf(top_matches[k]) >= SCORE_THRESHOLD
          /\ highest_score >= SCORE_THRESHOLD =>
                TieSet = {i \in Scanned : ScoreOf(i) = highest_score}
          /\ scan_i > Len(docs) =>
                MatchChoices(top_matches, highest_score) =
                    IF MaxScoreUpTo(Len(docs)) >= SCORE_THRESHOLD
                    THEN {docs[i] : i \in {j \in 1..Len(docs) :
                                             ScoreOf(j) = MaxScoreUpTo(Len(docs))}}
                    ELSE {NoDocument}
    /\ pc = "fallback" =>
          /\ primary_match = NoDocument <=>
                 \A i \in 1..Len(docs) : ScoreOf(i) < SCORE_THRESHOLD
          /\ primary_match # NoDocument =>
                 \E i \in 1..Len(docs) :
                    /\ primary_match = docs[i]
                    /\ \A j \in 1..Len(docs) : ScoreOf(j) <= ScoreOf(i)

\* "what is nifty" on the store with two definitions: both score 0.5, and
\* the one scanned second is returned
C11_Witness ==
    /\ pc = "fallback"
    /\ user_question = Str("what is nifty")
    /\ highest_score = SCORE_THRESHOLD
    /\ Len(top_matches) = 2
    /\ primary_match = docs[top_matches[2]]


\* The first part of a Definition reply: header, bolded title, body
ComposedDefinition(title, body) ==
    localized_header(lang, "explained") \o NL \o fmt_bold \o title
    \o fmt_bold_colon \o NL \o body

\* The request ended with a Definition reply
DefinitionReply ==
    /\ pc = "return"
    /\ primary_match # NoDocument
    /\ primary_match.doc_type = "Definition"

\* C12: a Definition that came from local retrieval is composed with the
\* document's own search_key as title and its locale-selected text as body
\* (content_hindi in the Hindi locale, content in the English one); only a
\* fallback match is composed with the utterance as title (title-cased in
\* the English locale) and the fallback text as body. For every utterance,
\* one equal to the matched document's search_key included.
C12_RetrievedDefinitionKeepsItsTitle ==
    DefinitionReply =>
        IF calls.call_gemini_api_fallback = 0
        THEN /\ \E i \in 1..Len(docs) : primary_match = docs[i]
             /\ core = ComposedDefinition(
                           primary_match.search_key,
                           IF lang = "hindi" THEN primary_match.content_hindi
                           ELSE primary_match.content)
        ELSE core = ComposedDefinition(
                        IF lang = "hindi" THEN user_question
                        ELSE Title(user_question),
                        gemini_text)


\* The request ended, was not answered by the language-selection, greeting
\* or multi-tip branch, its normalized utterance is none of the fixed vague
\* phrases, and some stored document scores at least 0.5 for it
RetrievableRequest ==
    /\ pc = "return"
    /\ ~ChoosesHindi /\ ~ChoosesEnglish /\ ~Greets
    /\ calls.search_multiple_tips = 0
    /\ ~InList(Normalized, vague_keywords)
    /\ \E i \in 1..Len(docs) : ScoreOf(i) >= SCORE_THRESHOLD

\* The reply was composed from a document search_custom_data returned
AnsweredFromRetrieval ==
    /\ calls.search_custom_data = 1
    /\ calls.call_gemini_api_fallback = 0
    /\ \E i \in 1..Len(docs) :
          /\ primary_match = docs[i]
          /\ ScoreOf(i) >= SCORE_THRESHOLD
          /\ FirstPos(reply, docs[i].search_key) > 0
             \/ FirstPos(reply, Title(docs[i].search_key)) > 0
    /\ reply \notin {vague_message_english, vague_message_hindi,
                     out_of_scope_message_english, out_of_scope_message_hindi}

\* C13 as stated: every such request is answered from a retrieved document,
\* whatever is_query_financial says of the utterance.
C13_RetrievalNeverGated == RetrievableRequest => AnsweredFromRetrieval

\* C13, amended: such a request is answered from a retrieved document
\* whatever is_query_financial says, provided the utterance has more than
\* two whitespace tokens or is finance-relevant; with at most two tokens
\* and not finance-relevant it gets the vague-query message and retrieval
\* does not run.
C13_RetrievalGatedOnlyForShortUtterances ==
    RetrievableRequest =>
        IF Len(Split(Normalized)) > 2 \/ is_query_financial(user_question)
        THEN AnsweredFromRetrieval
        ELSE /\ reply \in {vague_message_english, vague_message_hindi}
             /\ calls = NoCalls

\* four tokens, none of them a finance keyword, answered with the
\* definition of SIP
C13_Witness ==
    /\ RetrievableRequest
    /\ user_question = Str("explain systematic investment plans")
    /\ ~is_query_financial(user_question)
    /\ primary_match.search_key = Str("SIP")
    /\ AnsweredFromRetrieval

====
